---------------------------- MODULE Spec2Model ----------------------------
(***************************************************************************)
(* Model of the meeting engine of Dana (src/src/dana/commands/meetings.py):*)
(* the Meeting entity, its trigger planner, the skip policy, the rotation  *)
(* selector, the APScheduler job store the bot drives, and the MeetingBot  *)
(* command surface with its persistence snapshot.                          *)
(*                                                                         *)
(* Strings that the code compares by prefix or suffix (meeting names, job  *)
(* ids) are sequences of characters.  Weights are exact rationals <<n,d>>. *)
(* Instants are seconds counted from a Monday 00:00.                       *)
(***************************************************************************)
EXTENDS Integers, Sequences, FiniteSets, TLC

VARIABLES
    heap,       \* Meeting objects: object id -> Meeting fields
    registry,   \* the MeetingBot dict: meeting name -> object id
    jobs,       \* the scheduler's job store: set of armed jobs
    storage,    \* the persisted snapshot (Optional: <<>> = key does not exist)
    now,        \* the wall clock, in seconds
    last,       \* what the last command / callback did and returned
    nsel,       \* rotation selections that decayed weights so far
    pc          \* the command thread: <<>> between commands, or where it is
                \* inside remove_participant

vars == <<heap, registry, jobs, storage, now, last, nsel, pc>>

---------------------------------------------------------------------------
(* Generic helpers *)

None == <<>>
Some(x) == <<x>>

Max(a, b) == IF a >= b THEN a ELSE b
Min(a, b) == IF a <= b THEN a ELSE b
Abs(a) == IF a < 0 THEN 0 - a ELSE a

SetMin(S) == CHOOSE x \in S : \A y \in S : x <= y

Range(s) == {s[i] : i \in 1..Len(s)}

RemoveAt(s, i) == SubSeq(s, 1, i - 1) \o SubSeq(s, i + 1, Len(s))

\* str.startswith
StartsWith(s, p) == Len(p) <= Len(s) /\ SubSeq(s, 1, Len(p)) = p

\* str.endswith
EndsWith(s, p) == Len(p) <= Len(s) /\ SubSeq(s, Len(s) - Len(p) + 1, Len(s)) = p

---------------------------------------------------------------------------
(* Exact rationals <<numerator, denominator>>, denominator > 0, reduced *)

RECURSIVE Gcd(_, _)
Gcd(a, b) == IF b = 0 THEN a ELSE Gcd(b, a % b)

Rat(n, d) == LET g == Gcd(Abs(n), d) IN IF n = 0 THEN <<0, 1>> ELSE <<n \div g, d \div g>>

RAdd(x, y) == Rat(x[1] * y[2] + y[1] * x[2], x[2] * y[2])

\* x / y for y > 0
RDiv(x, y) == Rat(x[1] * y[2], x[2] * y[1])

RLess(x, y) == x[1] * y[2] < y[1] * x[2]

RECURSIVE RSum(_)
RSum(w) == IF w = <<>> THEN <<0, 1>> ELSE RAdd(w[1], RSum(Tail(w)))

RECURSIVE RMaxSeq(_)
RMaxSeq(w) ==
    IF Len(w) = 1 THEN w[1]
    ELSE LET m == RMaxSeq(Tail(w)) IN IF RLess(w[1], m) THEN m ELSE w[1]

One == <<1, 1>>

\* [w / s for w in weight]
Renormalize(w, s) == [i \in 1..Len(w) |-> RDiv(w[i], s)]

RelTolInv == 1000000000

\* math.isclose(s, 1.) : abs(s - 1) <= 1e-9 * max(abs(s), 1)
IsCloseToOne(s) == Abs(s[1] - s[2]) <= Max(s[1], s[2]) \div RelTolInv

---------------------------------------------------------------------------
(* Ordered mappings (Python dicts): sequences of [k, v] with unique keys *)

Keys(d) == {d[i].k : i \in 1..Len(d)}

KeySeq(d) == [i \in 1..Len(d) |-> d[i].k]

IndexOf(d, key) == CHOOSE i \in 1..Len(d) : d[i].k = key

\* dict.update(other): existing keys keep their position, new keys append
RECURSIVE DictUpdate(_, _)
DictUpdate(d, other) ==
    IF other = <<>> THEN d
    ELSE LET e == Head(other)
             d1 == IF e.k \in Keys(d)
                   THEN [d EXCEPT ![IndexOf(d, e.k)] = e]
                   ELSE Append(d, e)
         IN DictUpdate(d1, Tail(other))

\* the entries of d whose key is not in ks
RECURSIVE DictDrop(_, _)
DictDrop(d, ks) ==
    IF d = <<>> THEN <<>>
    ELSE IF Head(d).k \in ks THEN DictDrop(Tail(d), ks)
         ELSE <<Head(d)>> \o DictDrop(Tail(d), ks)

---------------------------------------------------------------------------
(* Time *)

Minute == 60
Hour == 3600
Day == 86400
Week == 604800

\* minutes a reminder precedes its appointment
ReminderLead == 5

\* datetime(start.year, start.month, start.day): midnight of the instant's day
Midnight(t) == (t \div Day) * Day

\* date.today() as a day number
DayOf(t) == t \div Day

\* weekday of a day number, 0 = Monday
WeekdayOf(d) == d % 7

\* time_delta(time(hour, minute), timedelta(minutes=delta)): the time of day
\* only, the date part of the sum is dropped
time_delta(hour, minute, delta) ==
    LET m == (hour * 60 + minute + delta) % 1440
    IN [hour |-> m \div 60, minute |-> m % 60]

---------------------------------------------------------------------------
(* Strings *)

DotReminder == <<".", "r", "e", "m", "i", "n", "d", "e", "r">>

DotSchedule == <<".", "s", "c", "h", "e", "d", "u", "l", "e", "-">>

\* str(n) for a schedule index
RECURSIVE Str(_)
Str(n) ==
    IF n < 10 THEN <<(<<"0", "1", "2", "3", "4", "5", "6", "7", "8", "9">>)[n + 1]>>
    ELSE Str(n \div 10) \o Str(n % 10)

---------------------------------------------------------------------------
(* The user directory (client.get_users) and MeetingBot._zulip_users *)

Directory ==
    << [k |-> "ann", v |-> 11], [k |-> "bob", v |-> 12],
       [k |-> "cat", v |-> 13], [k |-> "dan", v |-> 14] >>

RECURSIVE SelectKeys(_, _)
SelectKeys(d, ks) ==
    IF d = <<>> THEN <<>>
    ELSE IF Head(d).k \in ks THEN <<Head(d)>> \o SelectKeys(Tail(d), ks)
         ELSE SelectKeys(Tail(d), ks)

\* {u['full_name']: u['user_id'] for u in _users if u['full_name'] in users}
ZulipUsers(users) == SelectKeys(Directory, Range(users))

---------------------------------------------------------------------------
(* Meeting: the dataclass and __post_init__ *)

Ok(v) == [ok |-> TRUE, val |-> v]
Raise(e) == [ok |-> FALSE, exc |-> e]

\* Meeting(**kwargs) with weight given (Some(list)) or defaulted (None)
PostInit(name, participants, participants_optional, start, end, schedules, paused, weightArg) ==
    IF weightArg = None /\ Len(participants) = 0
    THEN Raise("ZeroDivisionError")
    ELSE
      LET w0 == IF weightArg = None
                THEN [i \in 1..Len(participants) |-> Rat(1, Len(participants))]
                ELSE weightArg[1]
          s == RSum(w0)
      IN IF ~IsCloseToOne(s) /\ s[1] = 0 /\ Len(w0) > 0
         THEN Raise("ZeroDivisionError")
         ELSE Ok([ name |-> name,
                   participants |-> participants,
                   participants_optional |->
                       DictDrop(participants_optional, Keys(participants)),
                   start |-> start,
                   end |-> end,
                   schedules |-> schedules,
                   paused |-> paused,
                   weight |-> IF IsCloseToOne(s) THEN w0 ELSE Renormalize(w0, s) ])

---------------------------------------------------------------------------
(* Trigger planner: Meeting.trigger *)

DateTrigger(t) == [kind |-> "date", run |-> t]

CronTrigger(days, hour, minute, start, end) ==
    [kind |-> "cron", days |-> days, hour |-> hour, minute |-> minute,
     start |-> start, end |-> end]

\* the two entries schedule n adds to the triggers dict
ScheduleTriggers(m, n) ==
    LET sch == m.schedules[n + 1]
        rem_time == time_delta(sch.hour, sch.minute, 0 - ReminderLead)
        base == m.name \o DotSchedule \o Str(n)
    IN << [id |-> base,
           trig |-> CronTrigger(sch.days, sch.hour, sch.minute, m.start, m.end),
           week_interval |-> sch.week_interval],
          [id |-> base \o DotReminder,
           trig |-> CronTrigger(sch.days, rem_time.hour, rem_time.minute, m.start, m.end),
           week_interval |-> sch.week_interval] >>

RECURSIVE CronTriggers(_, _)
CronTriggers(m, n) ==
    IF n >= Len(m.schedules) THEN <<>>
    ELSE ScheduleTriggers(m, n) \o CronTriggers(m, n + 1)

\* Meeting.trigger(): the dict of triggers, in insertion order
Trigger(m) ==
    IF Len(m.schedules) > 0
    THEN CronTriggers(m, 0)
    ELSE << [id |-> m.name, trig |-> DateTrigger(m.start), week_interval |-> 1],
            [id |-> m.name \o DotReminder,
             trig |-> DateTrigger(m.start - ReminderLead * Minute),
             week_interval |-> 1] >>

---------------------------------------------------------------------------
(* Bounds of the model *)

\* the clock runs over days 0..MaxDay (day 0 is a Monday)
MaxDay == 7

\* Meeting objects of one name alive at the same time (the registry's, and
\* those only jobs still refer to)
MaxObj == 2

\* rotation selections that decay weights, over a run
MaxSel == 1

\* weights of the rotation are drawn as k / MaxWeightDen
MaxWeightDen == 6

\* week intervals 1..MaxInterval
MaxInterval == 3

\* the skip-policy specification runs over weeks 0..MaxSkipWeek
MaxSkipWeek == 2

HorizonEnd == (MaxDay + 1) * Day - 1

SkipHorizonEnd == (MaxSkipWeek + 1) * Week - 1

\* weeks in which cron occurrences are computed: past both horizons
LastWeek == Max(MaxDay \div 7, MaxSkipWeek) + 1

---------------------------------------------------------------------------
(* The job store of the BackgroundScheduler *)

\* seconds a run may be late before the executor drops it (misfire_grace_time)
MisfireGrace == 1

\* every instant the cron fields (day_of_week, hour, minute) match
CronOccurrences(trig) ==
    { w * Week + d * Day + trig.hour * Hour + trig.minute * Minute :
        w \in 0..LastWeek, d \in trig.days }

\* trigger.get_next_fire_time(previous_fire_time, now) -> Optional instant
GetNextFireTime(trig, prev, t) ==
    IF trig.kind = "date"
    THEN IF prev = None THEN Some(trig.run) ELSE None
    ELSE LET lower == IF prev = None THEN Max(t, trig.start) ELSE prev[1] + 1
             cand == { o \in CronOccurrences(trig) : o >= lower }
         IN IF cand = {} THEN None
            ELSE IF trig.end # None /\ SetMin(cand) > trig.end[1] THEN None
            ELSE Some(SetMin(cand))

JobIds(js) == { j.id : j \in js }

JobById(js, id) == CHOOSE j \in js : j.id = id

\* scheduler.add_job(func, trigger, id=..., args=(meeting, week_interval)):
\* ConflictingIdError when the id is armed already
SchedulerAddJob(js, func, trig, id, obj, week_interval, t) ==
    IF id \in JobIds(js) THEN Raise("ConflictingIdError")
    ELSE Ok(js \cup { [ id |-> id, func |-> func, obj |-> obj,
                        week_interval |-> week_interval, trig |-> trig,
                        next |-> GetNextFireTime(trig, None, t) ] })

\* scheduler.remove_job(id): JobLookupError when no such job
SchedulerRemoveJob(js, id) ==
    IF id \notin JobIds(js) THEN Raise("JobLookupError")
    ELSE Ok({ j \in js : j.id # id })

\* the callback _add_job binds to a trigger id
JobFunc(trigger_id) ==
    IF EndsWith(trigger_id, DotReminder) THEN "_send_reminder" ELSE "_send_appointment"

\* MeetingBot._add_job: arm the triggers in order; stops at the first error,
\* keeping the jobs armed before it
RECURSIVE AddJobsFrom(_, _, _, _)
AddJobsFrom(js, trs, obj, t) ==
    IF trs = <<>> THEN Ok(js)
    ELSE LET tr == Head(trs)
             r == SchedulerAddJob(js, JobFunc(tr.id), tr.trig, tr.id, obj, tr.week_interval, t)
         IN IF r.ok THEN AddJobsFrom(r.val, Tail(trs), obj, t)
            ELSE [ok |-> FALSE, exc |-> r.exc, val |-> js]

AddJob(js, m, obj, t) ==
    LET r == AddJobsFrom(js, Trigger(m), obj, t)
    IN IF r.ok THEN [ok |-> TRUE, exc |-> "", val |-> r.val] ELSE r

\* MeetingBot._remove_job: remove every job whose id starts with the name
RemoveJob(js, m) == { j \in js : ~StartsWith(j.id, m.name) }

---------------------------------------------------------------------------
(* Persistence: MeetingBot.commit and CachedStore.__init__ / init_data *)

\* str(datetime) as json.dumps(default=str) writes it
Iso(t) == [iso |-> t]

\* datetime.fromisoformat
FromIso(x) == x.iso

\* a schedule tuple comes back from JSON as a list
AsList(sch) == [sch EXCEPT !.seq = "list"]

\* asdict(meeting) dumped to JSON
AsDict(m) ==
    [ name |-> m.name,
      participants |-> m.participants,
      participants_optional |-> m.participants_optional,
      start |-> Iso(m.start),
      end |-> IF m.end = None THEN None ELSE Some(Iso(m.end[1])),
      schedules |-> [i \in 1..Len(m.schedules) |-> AsList(m.schedules[i])],
      paused |-> m.paused,
      weight |-> m.weight ]

\* the snapshot commit() hands to update_storage
Commit(reg, h) == Some([n \in DOMAIN reg |-> AsDict(h[reg[n]])])

\* Meeting(**value) for one persisted entry
FromDict(d) ==
    PostInit(d.name, d.participants, d.participants_optional, FromIso(d.start), IF d.end = None THEN None ELSE Some(FromIso(d.end[1])), d.schedules, d.paused, Some(d.weight))

---------------------------------------------------------------------------
(* Skip policy *)

\* days on which `today in public_holidays(today.year)` holds
Holidays == {1, 8}

\* variant: the weeks are counted from the start time, not from its midnight
RunTriggerSinceStart(m, week_interval, t) ==
    ((t - m.start) \div Week) % week_interval = 0

\* MeetingBot._run_trigger_this_week
RunTriggerThisWeek(m, week_interval, t) ==
    LET start_day == Midnight(m.start)
        dt == t - start_day
        n_weeks == dt \div Week
    IN (n_weeks % week_interval) = 0

\* variant: public holidays are not looked at
SkipWeekOnly(m, week_interval, t) ==
    ~RunTriggerThisWeek(m, week_interval, t)

\* MeetingBot._skip
Skip(m, week_interval, t) ==
    IF ~RunTriggerThisWeek(m, week_interval, t) THEN TRUE
    ELSE IF DayOf(t) \in Holidays THEN TRUE
    ELSE FALSE

---------------------------------------------------------------------------
(* Rotation selector: Meeting.takes_minutes *)

Ten == <<10, 1>>
Two == <<2, 1>>

\* variant: the primary's weight is halved, the first backup's divided by 10
DecaySwapped(w, i1, i2) ==
    LET w1 == [w EXCEPT ![i1] = RDiv(w[i1], Two)]
        w2 == [w1 EXCEPT ![i2] = RDiv(w1[i2], Ten)]
    IN Renormalize(w2, RSum(w2))

\* the weight vector after users i1 (primary) and i2 (first backup) were drawn
Decay(w, i1, i2) ==
    LET w1 == [w EXCEPT ![i1] = RDiv(w[i1], Ten)]
        w2 == [w1 EXCEPT ![i2] = RDiv(w1[i2], Two)]
    IN Renormalize(w2, RSum(w2))

\* every result np.random.choice can produce, with the weights it leaves
TakesMinutes(m) ==
    LET p == KeySeq(m.participants)
        w == m.weight
        nz == { i \in 1..Len(w) : w[i][1] # 0 }
    IN IF Len(p) < 3
       THEN IF Len(p) = 0 THEN { Raise("ValueError") }
            ELSE { [ok |-> TRUE, users |-> <<p[i], p[i], p[i]>>, weight |-> w] : i \in 1..Len(p) }
       ELSE IF Len(w) # Len(p) \/ ~IsCloseToOne(RSum(w)) \/ Cardinality(nz) < 3
            THEN { Raise("ValueError") }
            ELSE { [ok |-> TRUE, users |-> <<p[t[1]], p[t[2]], p[t[3]]>>,
                    weight |-> Decay(w, t[1], t[2])] :
                     t \in { x \in nz \X nz \X nz :
                               x[1] # x[2] /\ x[1] # x[3] /\ x[2] # x[3] } }

\* ids of chain(participants.values(), participants_optional.values())
Recipients(m) ==
    [i \in 1..(Len(m.participants) + Len(m.participants_optional)) |->
        IF i <= Len(m.participants) THEN m.participants[i].v
        ELSE m.participants_optional[i - Len(m.participants)].v]

\* Meeting.appointment's payload, for the users drawn
AppointmentMsg(m, users) ==
    [type |-> "private", to |-> Recipients(m), content |-> <<"starts now">> \o users]

\* Meeting.reminder
ReminderMsg(m) ==
    [type |-> "private", to |-> Recipients(m), content |-> <<"starts in 5 minutes">>]

---------------------------------------------------------------------------
(* Inputs of the model *)

NameA == <<"a">>
NameAR == NameA \o DotReminder

\* "a" is a prefix of "a.reminder", and "a.reminder" ends like a reminder job
Names == {NameA, NameAR}

\* Monday of week 0, 10:00
S0 == 10 * Hour

\* schedule tuples (week_interval, days, hour, minute) as execute builds
\* them: Monday and Tuesday at 10:00, every second week
SchA == [seq |-> "tuple", week_interval |-> 2, days |-> {0, 1}, hour |-> 10, minute |-> 0]

\* the arguments of `meeting add`
OneShot ==
    [participants |-> <<"ann">>, optional |-> <<>>,
     start |-> S0, end |-> None, schedules |-> <<>>]

Weekly ==
    [participants |-> <<"ann", "bob">>, optional |-> <<>>,
     start |-> S0 - Hour, end |-> None, schedules |-> <<SchA>>]

Trio ==
    [participants |-> <<"ann", "bob", "cat">>, optional |-> <<"ann", "dan">>,
     start |-> S0 - Hour, end |-> None, schedules |-> <<SchA>>]

\* nobody of the directory
Nobody ==
    [participants |-> <<"zed">>, optional |-> <<>>,
     start |-> S0, end |-> None, schedules |-> <<>>]

Templates == { OneShot, Weekly }

\* recurring meetings for the skip policy: started on Monday or Wednesday of
\* week 0 at 10:00, held Monday and Wednesday at 10:00 every n-th week
SkipTemplates ==
    { [participants |-> <<"ann">>, optional |-> <<>>,
       start |-> d * Day + 10 * Hour, end |-> None,
       schedules |-> << [seq |-> "tuple", week_interval |-> n, days |-> {0, 2}, hour |-> 10, minute |-> 0] >>] :
        d \in {0, 2}, n \in 1..MaxInterval }

RosterTemplates == { OneShot, Trio, Nobody }

\* meetings with an end: one-shot at Monday 10:00 ending an hour before, at,
\* or an hour after the start; weekly on Monday and Wednesday at 10:00 ending
\* Monday noon, Wednesday 09:57 or Wednesday 10:00
EndTemplates ==
    { [participants |-> <<"ann">>, optional |-> <<>>,
       start |-> S0, end |-> Some(e), schedules |-> <<>>] :
        e \in {S0 - Hour, S0, S0 + Hour} }
    \cup
    { [participants |-> <<"ann">>, optional |-> <<>>,
       start |-> S0 - Hour, end |-> Some(e),
       schedules |-> << [seq |-> "tuple", week_interval |-> 1, days |-> {0, 2}, hour |-> 10, minute |-> 0] >>] :
        e \in {12 * Hour, 2 * Day + 10 * Hour - 3 * Minute, 2 * Day + 10 * Hour} }

\* times of day of a schedule tuple: midnight, the last minute the reminder
\* lead reaches across midnight, the first it does not, mid-morning, and the
\* last minute of the day
PlanTimes == { <<0, 0>>, <<0, 4>>, <<0, 5>>, <<10, 0>>, <<23, 59>> }

\* meetings from Monday 00:00 on: every Wednesday, every Wednesday and
\* Thursday, or every Friday, at one of these times; and the one-shot meeting
PlanTemplates ==
    { [participants |-> <<"ann">>, optional |-> <<>>,
       start |-> 0, end |-> None,
       schedules |-> << [seq |-> "tuple", week_interval |-> 1, days |-> ds,
                         hour |-> hm[1], minute |-> hm[2]] >>] :
        hm \in PlanTimes, ds \in { {2}, {2, 3}, {4} } }
    \cup { OneShot }

\* the users remove_participant is asked to remove, one at a time
RaceUsers == {"ann", "bob"}

\* the users of the commands of the surface specification
SurfaceUsers == { <<"bob", "cat">>, <<"dan">> }

\* the users of `meeting add_participant` / `remove_participant`
UserLists == { <<"ann">>, <<"bob", "zed">> }

\* a snapshot an earlier run left: drifted weights, an optional participant
\* who is also required
Stored(paused) ==
    [ name |-> NameA,
      participants |-> <<[k |-> "ann", v |-> 11], [k |-> "bob", v |-> 12]>>,
      participants_optional |-> <<[k |-> "bob", v |-> 12], [k |-> "dan", v |-> 14]>>,
      start |-> Iso(S0 - Hour), end |-> None, schedules |-> <<AsList(SchA)>>,
      paused |-> paused, weight |-> <<Rat(1, 2), Rat(1, 4)>> ]

\* the directory names in order: the first n are the required participants
Roster(n) ==
    [i \in 1..n |-> [k |-> <<"ann", "bob", "cat", "dan">>[i], v |-> 10 + i]]

\* snapshots of a recurring meeting of three or four required participants,
\* every weight a positive multiple of 1 / MaxWeightDen, the weights adding
\* up to 1
DecayStorages ==
    { Some([x \in {NameA} |->
             [ name |-> NameA, participants |-> Roster(Len(f)),
               participants_optional |-> <<>>,
               start |-> Iso(S0 - Hour), end |-> None, schedules |-> <<AsList(SchA)>>,
               paused |-> FALSE,
               weight |-> [i \in 1..Len(f) |-> Rat(f[i], MaxWeightDen)] ]]) :
        f \in { g \in UNION { [1..k -> 1..MaxWeightDen] : k \in {3, 4} } :
                  RSum([i \in DOMAIN g |-> Rat(g[i], MaxWeightDen)]) = One } }

\* a schedule of every week, Monday and Wednesday at 10:00
SchMonWed ==
    [seq |-> "tuple", week_interval |-> 1, days |-> {0, 2}, hour |-> 10, minute |-> 0]

\* snapshots of a meeting on that schedule with two or three required
\* participants of equal weight
SendStorages ==
    { Some([x \in {NameA} |->
             [ name |-> NameA, participants |-> Roster(n),
               participants_optional |-> <<>>,
               start |-> Iso(S0 - Hour), end |-> None, schedules |-> <<AsList(SchMonWed)>>,
               paused |-> FALSE,
               weight |-> [i \in 1..n |-> Rat(1, n)] ]]) : n \in {2, 3} }

InitStorages ==
    { None } \cup { Some([n \in {NameA} |-> Stored(p)]) : p \in BOOLEAN }

---------------------------------------------------------------------------
(* The heap of Meeting objects *)

Referenced(reg, js) == { reg[n] : n \in DOMAIN reg } \cup { j.obj : j \in js }

\* objects nothing refers to any more are collected
Gc(h, reg, js) == [o \in Referenced(reg, js) \cap DOMAIN h |-> h[o]]

\* object ids are <<name, k>>: the k-th live object constructed with that name
FreeOids(h, name) == { k \in 1..MaxObj : <<name, k>> \notin DOMAIN h }

HasFreeOid(h, name) == FreeOids(h, name) # {}

NewOid(h, name) == <<name, SetMin(FreeOids(h, name))>>

Without(reg, name) == [n \in DOMAIN reg \ {name} |-> reg[n]]

With(f, key, val) == [x \in DOMAIN f \cup {key} |-> IF x = key THEN val ELSE f[x]]

\* what a command or a callback did: its result, the message it sent, whether
\* it committed
Did(op, arg, result, exc, sent, commit) ==
    [op |-> op, arg |-> arg, result |-> result, exc |-> exc, sent |-> sent, commit |-> commit]

---------------------------------------------------------------------------
(* Construction: CachedStore.__init__ and MeetingBot.init_data *)

RECURSIVE InitData(_, _, _, _, _, _)
InitData(data, todo, reg, h, js, t) ==
    IF todo = {} THEN [ok |-> TRUE, reg |-> reg, heap |-> h, jobs |-> js]
    ELSE LET key == CHOOSE n \in todo : TRUE
             r == FromDict(data[key])
             oid == NewOid(h, key)
         IN IF ~r.ok THEN [ok |-> FALSE, reg |-> reg, heap |-> h, jobs |-> js]
            ELSE LET aj == IF r.val.paused THEN [ok |-> TRUE, exc |-> "", val |-> js]
                           ELSE AddJob(js, r.val, oid, t)
                 IN IF ~aj.ok THEN [ok |-> FALSE, reg |-> reg, heap |-> h, jobs |-> js]
                    ELSE InitData(data, todo \ {key}, With(reg, key, oid),
                                  With(h, oid, r.val), aj.val, t)

Empty == [x \in {} |-> 0]

\* MeetingBot(bot, cache_path) against the persisted snapshot st
Construct(st, t) ==
    IF st = None THEN [ok |-> TRUE, reg |-> Empty, heap |-> Empty, jobs |-> {}]
    ELSE InitData(st[1], DOMAIN st[1], Empty, Empty, {}, t)

Init ==
    /\ now = 0
    /\ storage \in InitStorages
    /\ LET c == Construct(storage, 0)
       IN /\ c.ok
          /\ registry = c.reg
          /\ heap = c.heap
          /\ jobs = c.jobs
    /\ last = Did("init", <<>>, "ok", "", None, FALSE)
    /\ nsel = 0
    /\ pc = None

\* the bot started on a snapshot of the rotation's weight grid
InitDecay ==
    /\ now = 0
    /\ storage \in DecayStorages
    /\ LET c == Construct(storage, 0)
       IN /\ c.ok
          /\ registry = c.reg
          /\ heap = c.heap
          /\ jobs = c.jobs
    /\ last = Did("init", <<>>, "ok", "", None, FALSE)
    /\ nsel = 0
    /\ pc = None

\* a bot started on a snapshot of a meeting held every Monday and
\* Wednesday, the weights uniform
InitSend ==
    /\ now = 0
    /\ storage \in SendStorages
    /\ LET c == Construct(storage, 0)
       IN /\ c.ok
          /\ registry = c.reg
          /\ heap = c.heap
          /\ jobs = c.jobs
    /\ last = Did("init", <<>>, "ok", "", None, FALSE)
    /\ nsel = 0
    /\ pc = None

---------------------------------------------------------------------------
(* The command surface, each command as execute() runs it under return_exc *)

\* variant: the command runs without ensure_name and fails on self[name]
NotFoundUnwrapped(op, name) ==
    /\ name \notin DOMAIN registry
    /\ last' = Did(op, name, "traceback", "KeyError", None, FALSE)
    /\ UNCHANGED <<heap, registry, jobs, storage, now, nsel, pc>>

\* ensure_name answered for a name the registry does not hold
NotFound(op, name) ==
    /\ name \notin DOMAIN registry
    /\ last' = Did(op, name, "does not exist", "", None, FALSE)
    /\ UNCHANGED <<heap, registry, jobs, storage, now, nsel, pc>>

\* MeetingBot.add
Add(name, tpl) ==
    LET r == PostInit(name, ZulipUsers(tpl.participants), ZulipUsers(tpl.optional), tpl.start, tpl.end, tpl.schedules, FALSE, None)
    IN IF ~r.ok
       THEN /\ last' = Did("add", name, "traceback", r.exc, None, FALSE)
            /\ UNCHANGED <<heap, registry, jobs, storage, now, nsel, pc>>
       ELSE IF name \in DOMAIN registry
       THEN /\ last' = Did("add", name, "already exists", "", None, FALSE)
            /\ UNCHANGED <<heap, registry, jobs, storage, now, nsel, pc>>
       ELSE /\ HasFreeOid(heap, name)
            /\ LET oid == NewOid(heap, name)
                   aj == AddJob(jobs, r.val, oid, now)
                   h1 == With(heap, oid, r.val)
               IN IF ~aj.ok
                  THEN /\ jobs' = aj.val
                       /\ heap' = Gc(h1, registry, aj.val)
                       /\ last' = Did("add", name, "traceback", aj.exc, None, FALSE)
                       /\ UNCHANGED <<registry, storage, now, nsel, pc>>
                  ELSE /\ jobs' = aj.val
                       /\ registry' = With(registry, name, oid)
                       /\ heap' = h1
                       /\ storage' = Commit(registry', heap')
                       /\ last' = Did("add", name, "text", "", None, TRUE)
                       /\ UNCHANGED <<now, nsel, pc>>

\* MeetingBot.list
List ==
    /\ last' = Did("list", <<>>, "text", "", None, FALSE)
    /\ UNCHANGED <<heap, registry, jobs, storage, now, nsel, pc>>

\* MeetingBot.info
Info(name) ==
    /\ name \in DOMAIN registry
    /\ last' = Did("info", name, "text", "", None, FALSE)
    /\ UNCHANGED <<heap, registry, jobs, storage, now, nsel, pc>>

\* execute on the edit command: it raises NotImplementedError, which
\* return_exc turns into the traceback text
Edit(name) ==
    /\ last' = Did("edit", name, "traceback", "NotImplementedError", None, FALSE)
    /\ UNCHANGED <<heap, registry, jobs, storage, now, nsel, pc>>

\* MeetingBot.remove
Remove(name) ==
    /\ name \in DOMAIN registry
    /\ LET r == SchedulerRemoveJob(jobs, name)
       IN IF ~r.ok
          THEN /\ last' = Did("remove", name, "traceback", r.exc, None, FALSE)
               /\ UNCHANGED <<heap, registry, jobs, storage, now, nsel, pc>>
          ELSE /\ jobs' = r.val
               /\ registry' = Without(registry, name)
               /\ heap' = Gc(heap, registry', jobs')
               /\ storage' = Commit(registry', heap')
               /\ last' = Did("remove", name, "None", "", None, TRUE)
               /\ UNCHANGED <<now, nsel, pc>>

\* the required branch of add_participant, on meeting m
AddRequired(m, users) ==
    LET p1 == DictUpdate(m.participants, ZulipUsers(users))
        m1 == [m EXCEPT !.participants = p1]
    IN IF m.weight = <<>>
       THEN [ok |-> FALSE, exc |-> "ValueError", val |-> m1]
       ELSE LET pad == [i \in 1..Max(0, Len(p1) - Len(m.weight)) |-> RMaxSeq(m.weight)]
                w1 == m.weight \o pad
                sum_weight == RSum(w1)
                m2 == [m1 EXCEPT !.weight = w1]
            IN IF sum_weight[1] = 0
               THEN [ok |-> FALSE, exc |-> "ZeroDivisionError", val |-> m2]
               ELSE LET m3 == [m1 EXCEPT !.weight = Renormalize(w1, sum_weight)]
                    IN IF Len(m3.weight) # Len(m3.participants)
                       THEN [ok |-> FALSE, exc |-> "AssertionError", val |-> m3]
                       ELSE [ok |-> TRUE, exc |-> "", val |-> m3]

\* the optional branch of add_participant
AddOptional(m, users) ==
    [ok |-> TRUE, exc |-> "",
     val |-> [m EXCEPT !.participants_optional = DictUpdate(@, ZulipUsers(users))]]

\* variant: only the required participants are looked at
AlreadyRequired(m, users) ==
    \E i \in 1..Len(users) : users[i] \in Keys(m.participants)

\* the guard of add_participant: some requested user participates already
AlreadyParticipates(m, users) ==
    \E i \in 1..Len(users) : users[i] \in Keys(m.participants) \cup Keys(m.participants_optional)

\* variant: the users who participate already are left out and the others
\* are added
AddParticipantNew(name, users, optional) ==
    /\ name \in DOMAIN registry
    /\ LET oid == registry[name]
           m == heap[oid]
           known == Keys(m.participants) \cup Keys(m.participants_optional)
           fresh == SelectSeq(users, LAMBDA u : u \notin known)
       IN IF fresh = <<>>
          THEN /\ last' = Did("add_participant", name, "None", "", None, FALSE)
               /\ UNCHANGED <<heap, registry, jobs, storage, now, nsel, pc>>
          ELSE LET r == IF optional = FALSE THEN AddRequired(m, fresh) ELSE AddOptional(m, fresh)
               IN /\ heap' = [heap EXCEPT ![oid] = r.val]
                  /\ IF r.ok
                     THEN /\ storage' = Commit(registry, heap')
                          /\ last' = Did("add_participant", name, "text", "", None, TRUE)
                     ELSE /\ storage' = storage
                          /\ last' = Did("add_participant", name, "traceback", r.exc, None, FALSE)
                  /\ UNCHANGED <<registry, jobs, now, nsel, pc>>

\* MeetingBot.add_participant
AddParticipant(name, users, optional) ==
    /\ name \in DOMAIN registry
    /\ LET oid == registry[name]
           m == heap[oid]
       IN IF AlreadyParticipates(m, users)
          THEN /\ last' = Did("add_participant", name, "None", "", None, FALSE)
               /\ UNCHANGED <<heap, registry, jobs, storage, now, nsel, pc>>
          ELSE LET r == IF optional = FALSE THEN AddRequired(m, users) ELSE AddOptional(m, users)
               IN /\ heap' = [heap EXCEPT ![oid] = r.val]
                  /\ IF r.ok
                     THEN /\ storage' = Commit(registry, heap')
                          /\ last' = Did("add_participant", name, "text", "", None, TRUE)
                     ELSE /\ storage' = storage
                          /\ last' = Did("add_participant", name, "traceback", r.exc, None, FALSE)
                  /\ UNCHANGED <<registry, jobs, now, nsel, pc>>

\* the loop of remove_participant over the requested users
RECURSIVE PopUsers(_, _, _)
PopUsers(p, w, users) ==
    IF users = <<>> THEN [ok |-> TRUE, exc |-> "", p |-> p, w |-> w]
    ELSE IF Head(users) \notin Keys(p) THEN PopUsers(p, w, Tail(users))
    ELSE LET idx == IndexOf(p, Head(users))
             p1 == RemoveAt(p, idx)
         IN IF idx > Len(w)
            THEN [ok |-> FALSE, exc |-> "IndexError", p |-> p1, w |-> w]
            ELSE PopUsers(p1, RemoveAt(w, idx), Tail(users))

\* the body of remove_participant, on meeting m
RemoveUsers(m, users) ==
    LET r == PopUsers(m.participants, m.weight, users)
        m1 == [m EXCEPT !.participants = r.p, !.weight = r.w]
        sum_weight == RSum(r.w)
    IN IF ~r.ok THEN [ok |-> FALSE, exc |-> r.exc, val |-> m1]
       ELSE IF sum_weight[1] = 0 /\ Len(r.w) > 0
       THEN [ok |-> FALSE, exc |-> "ZeroDivisionError", val |-> m1]
       ELSE LET m2 == [m1 EXCEPT !.weight = Renormalize(r.w, sum_weight)]
            IN IF Len(m2.weight) # Len(m2.participants)
               THEN [ok |-> FALSE, exc |-> "AssertionError", val |-> m2]
               ELSE [ok |-> TRUE, exc |-> "", val |-> m2]

\* MeetingBot.remove_participant
RemoveParticipant(name, users) ==
    /\ name \in DOMAIN registry
    /\ LET oid == registry[name]
           r == RemoveUsers(heap[oid], users)
       IN /\ heap' = [heap EXCEPT ![oid] = r.val]
          /\ IF r.ok
             THEN /\ storage' = Commit(registry, heap')
                  /\ last' = Did("remove_participant", name, "text", "", None, TRUE)
             ELSE /\ storage' = storage
                  /\ last' = Did("remove_participant", name, "traceback", r.exc, None, FALSE)
          /\ UNCHANGED <<registry, jobs, now, nsel, pc>>

\* remove_participant up to meeting.participants.pop(user), for one user who
\* is a required participant: the weight is not popped yet
RemovePop(name, user) ==
    /\ pc = None
    /\ name \in DOMAIN registry
    /\ LET oid == registry[name]
           m == heap[oid]
       IN /\ user \in Keys(m.participants)
          /\ LET idx == IndexOf(m.participants, user)
             IN /\ heap' = [heap EXCEPT ![oid].participants = RemoveAt(@, idx)]
                /\ pc' = Some([name |-> name, obj |-> oid, idx |-> idx])
    /\ UNCHANGED <<registry, jobs, storage, now, last, nsel>>

\* remove_participant from meeting.weight.pop(idx) to its return
RemoveFinish ==
    /\ pc # None
    /\ LET oid == pc[1].obj
           m == heap[oid]
           r == IF pc[1].idx > Len(m.weight)
                THEN [ok |-> FALSE, exc |-> "IndexError", val |-> m]
                ELSE RemoveUsers([m EXCEPT !.weight = RemoveAt(@, pc[1].idx)], <<>>)
       IN /\ heap' = [heap EXCEPT ![oid] = r.val]
          /\ IF r.ok
             THEN /\ storage' = Commit(registry, heap')
                  /\ last' = Did("remove_participant", pc[1].name, "text", "", None, TRUE)
             ELSE /\ storage' = storage
                  /\ last' = Did("remove_participant", pc[1].name, "traceback", r.exc, None, FALSE)
    /\ pc' = None
    /\ UNCHANGED <<registry, jobs, now, nsel>>

\* variant: pause without the test for a paused meeting
PauseUnguarded(name) ==
    /\ name \in DOMAIN registry
    /\ LET oid == registry[name]
           m == heap[oid]
       IN /\ jobs' = RemoveJob(jobs, m)
          /\ heap' = Gc([heap EXCEPT ![oid].paused = TRUE], registry, jobs')
          /\ storage' = Commit(registry, heap')
          /\ last' = Did("pause", name, "is paused", "", None, TRUE)
          /\ UNCHANGED <<registry, now, nsel, pc>>

\* MeetingBot.pause
Pause(name) ==
    /\ name \in DOMAIN registry
    /\ LET oid == registry[name]
           m == heap[oid]
       IN IF m.paused
          THEN /\ last' = Did("pause", name, "is already paused", "", None, FALSE)
               /\ UNCHANGED <<heap, registry, jobs, storage, now, nsel, pc>>
          ELSE /\ jobs' = RemoveJob(jobs, m)
               /\ heap' = Gc([heap EXCEPT ![oid].paused = TRUE], registry, jobs')
               /\ storage' = Commit(registry, heap')
               /\ last' = Did("pause", name, "is paused", "", None, TRUE)
               /\ UNCHANGED <<registry, now, nsel, pc>>

\* MeetingBot.resume
Resume(name) ==
    /\ name \in DOMAIN registry
    /\ LET oid == registry[name]
           m == heap[oid]
       IN IF ~m.paused
          THEN /\ last' = Did("resume", name, "is not currently paused", "", None, FALSE)
               /\ UNCHANGED <<heap, registry, jobs, storage, now, nsel, pc>>
          ELSE LET m1 == [m EXCEPT !.paused = FALSE]
                   aj == AddJob(jobs, m1, oid, now)
               IN /\ jobs' = aj.val
                  /\ heap' = [heap EXCEPT ![oid] = m1]
                  /\ IF aj.ok
                     THEN /\ storage' = Commit(registry, heap')
                          /\ last' = Did("resume", name, "is resumed", "", None, TRUE)
                     ELSE /\ storage' = storage
                          /\ last' = Did("resume", name, "traceback", aj.exc, None, FALSE)
                  /\ UNCHANGED <<registry, now, nsel, pc>>

---------------------------------------------------------------------------
(* The scheduler's background loop *)

\* the job store after job j ran at its due time: re-armed at its next
\* occurrence, or dropped when the trigger has none
Rearm(js, j, t) ==
    LET nxt == GetNextFireTime(j.trig, j.next, t)
    IN IF nxt = None THEN js \ {j}
       ELSE (js \ {j}) \cup { [j EXCEPT !.next = nxt] }

\* the run was due too long ago: the executor drops it without calling
Missed(j, t) ==
    /\ t - j.next[1] > MisfireGrace
    /\ jobs' = Rearm(jobs, j, t)
    /\ heap' = Gc(heap, registry, jobs')
    /\ last' = Did(j.func, j.id, "missed", "", None, FALSE)
    /\ UNCHANGED <<registry, storage, nsel>>

\* the callback returns at once: MeetingBot._skip said so
Skipped(j, t) ==
    /\ t - j.next[1] <= MisfireGrace
    /\ Skip(heap[j.obj], j.week_interval, t)
    /\ jobs' = Rearm(jobs, j, t)
    /\ heap' = Gc(heap, registry, jobs')
    /\ last' = Did(j.func, j.id, "skipped", "", None, FALSE)
    /\ UNCHANGED <<registry, storage, nsel>>

\* a reminder callback that saved the registry after sending
SendReminderCommitting(j, t) ==
    /\ t - j.next[1] <= MisfireGrace
    /\ j.func = "_send_reminder"
    /\ ~Skip(heap[j.obj], j.week_interval, t)
    /\ jobs' = Rearm(jobs, j, t)
    /\ heap' = Gc(heap, registry, jobs')
    /\ storage' = Commit(registry, heap)
    /\ last' = Did(j.func, j.id, "sent", "", Some(ReminderMsg(heap[j.obj])), TRUE)
    /\ UNCHANGED <<registry, nsel>>

\* MeetingBot._send_reminder past the skip policy
SendReminder(j, t) ==
    /\ t - j.next[1] <= MisfireGrace
    /\ j.func = "_send_reminder"
    /\ ~Skip(heap[j.obj], j.week_interval, t)
    /\ jobs' = Rearm(jobs, j, t)
    /\ heap' = Gc(heap, registry, jobs')
    /\ last' = Did(j.func, j.id, "sent", "", Some(ReminderMsg(heap[j.obj])), FALSE)
    /\ UNCHANGED <<registry, storage, nsel>>

\* MeetingBot._send_appointment past the skip policy
SendAppointment(j, t) ==
    /\ t - j.next[1] <= MisfireGrace
    /\ j.func = "_send_appointment"
    /\ ~Skip(heap[j.obj], j.week_interval, t)
    /\ \E o \in TakesMinutes(heap[j.obj]) :
         IF ~o.ok
         THEN /\ jobs' = Rearm(jobs, j, t)
              /\ heap' = Gc(heap, registry, jobs')
              /\ last' = Did(j.func, j.id, "raised", o.exc, None, FALSE)
              /\ UNCHANGED <<registry, storage, nsel>>
         ELSE LET m == heap[j.obj]
                  h1 == [heap EXCEPT ![j.obj].weight = o.weight]
              IN /\ (o.weight # m.weight) => nsel < MaxSel
                 /\ nsel' = IF o.weight # m.weight THEN nsel + 1 ELSE nsel
                 /\ jobs' = Rearm(jobs, j, t)
                 /\ heap' = Gc(h1, registry, jobs')
                 /\ storage' = Commit(registry, h1)
                 /\ last' = Did(j.func, j.id, "sent", "", Some(AppointmentMsg(h1[j.obj], o.users)), TRUE)
                 /\ UNCHANGED registry

\* job j comes due within the horizon h of the model
Within(j, h) == j.next # None /\ j.next[1] <= h

\* the scheduler wakes at the earliest due time and runs the job due then
Fire(j) ==
    /\ j \in jobs
    /\ j.next # None
    /\ \A x \in jobs : x.next # None => j.next[1] <= x.next[1]
    /\ now' = Max(now, j.next[1])
    /\ UNCHANGED pc
    /\ \/ Missed(j, now')
       \/ Skipped(j, now')
       \/ SendReminder(j, now')
       \/ SendAppointment(j, now')

\* a callback past the skip policy whose call to the transport raises: the
\* message was built (for an appointment, the selection ran and decayed the
\* weights in memory), nothing after the send is executed
SendFails(j, t) ==
    /\ t - j.next[1] <= MisfireGrace
    /\ ~Skip(heap[j.obj], j.week_interval, t)
    /\ jobs' = Rearm(jobs, j, t)
    /\ last' = Did(j.func, j.id, "raised", "ConnectionError", None, FALSE)
    /\ UNCHANGED <<registry, storage, nsel>>
    /\ IF j.func = "_send_reminder"
       THEN heap' = Gc(heap, registry, jobs')
       ELSE \E o \in TakesMinutes(heap[j.obj]) :
              /\ o.ok
              /\ heap' = Gc([heap EXCEPT ![j.obj].weight = o.weight], registry, jobs')

\* the scheduler runs the job due next and the transport is down
FireSendFails(j) ==
    /\ j \in jobs
    /\ j.next # None
    /\ \A x \in jobs : x.next # None => j.next[1] <= x.next[1]
    /\ now' = Max(now, j.next[1])
    /\ UNCHANGED pc
    /\ SendFails(j, now')

\* the bot process is restarted: a new scheduler, the registry loaded again
Restart ==
    /\ LET c == Construct(storage, now)
       IN IF c.ok
          THEN /\ registry' = c.reg
               /\ heap' = c.heap
               /\ jobs' = c.jobs
               /\ last' = Did("init", <<>>, "ok", "", None, FALSE)
          ELSE /\ registry' = Empty
               /\ heap' = Empty
               /\ jobs' = {}
               /\ last' = Did("init", <<>>, "traceback", "", None, FALSE)
    /\ UNCHANGED <<storage, now, nsel, pc>>

Ops == {"remove", "info", "add_participant", "remove_participant", "pause", "resume"}

\* the bot with two meetings whose names interfere
Next ==
    \/ \E n \in Names, tpl \in Templates : Add(n, tpl)
    \/ \E n \in Names : Remove(n)
    \/ \E n \in Names : Pause(n)
    \/ \E n \in Names : Resume(n)
    \/ \E j \in jobs : Within(j, HorizonEnd) /\ Fire(j)
    \/ Restart

Spec == Init /\ [][Next]_vars

\* the bot with one meeting whose roster changes
NextRoster ==
    \/ \E tpl \in RosterTemplates : Add(NameA, tpl)
    \/ \E us \in UserLists, opt \in BOOLEAN : AddParticipant(NameA, us, opt)
    \/ \E us \in UserLists : RemoveParticipant(NameA, us)
    \/ Pause(NameA)
    \/ Resume(NameA)
    \/ \E op \in Ops : NotFound(op, NameA)
    \/ \E j \in jobs : Within(j, HorizonEnd) /\ Fire(j)
    \/ Restart

SpecRoster == Init /\ [][NextRoster]_vars

\* one recurring meeting, fired week after week
NextSkip ==
    \/ \E tpl \in SkipTemplates : Add(NameA, tpl)
    \/ \E j \in jobs : Within(j, SkipHorizonEnd) /\ Fire(j)

SpecSkip == Init /\ [][NextSkip]_vars


\* the nine commands of the surface on one meeting, no time passing
NextSurface ==
    \/ \E tpl \in Templates : Add(NameA, tpl)
    \/ Remove(NameA)
    \/ List
    \/ Info(NameA)
    \/ Edit(NameA)
    \/ \E us \in SurfaceUsers, opt \in BOOLEAN : AddParticipant(NameA, us, opt)
    \/ \E us \in SurfaceUsers : RemoveParticipant(NameA, us)
    \/ Pause(NameA)
    \/ Resume(NameA)
    \/ \E op \in Ops : NotFound(op, NameA)

SpecSurface == Init /\ [][NextSurface]_vars

\* one meeting with an end, paused, resumed and loaded again as time passes
NextEnd ==
    \/ \E tpl \in EndTemplates : Add(NameA, tpl)
    \/ Pause(NameA)
    \/ Resume(NameA)
    \/ \E j \in jobs : Within(j, HorizonEnd) /\ Fire(j)
    \/ Restart

SpecEnd == Init /\ [][NextEnd]_vars

\* remove_participant running on the command thread while the scheduler's
\* executor threads run the callbacks: nothing in the code orders the two
NextRace ==
    \/ \E u \in RaceUsers : RemovePop(NameA, u)
    \/ RemoveFinish
    \/ \E j \in jobs : Within(j, HorizonEnd) /\ Fire(j)

SpecRace == InitDecay /\ [][NextRace]_vars

\* the rotation of a loaded meeting, every weight vector of the grid
NextDecay ==
    \/ \E j \in jobs : Within(j, HorizonEnd) /\ Fire(j)
    \/ Restart

SpecDecay == InitDecay /\ [][NextDecay]_vars

\* one meeting planned at some time of day, its jobs run as time passes
NextPlan ==
    \/ \E tpl \in PlanTemplates : Add(NameA, tpl)
    \/ \E j \in jobs : Within(j, HorizonEnd) /\ Fire(j)

SpecPlan == Init /\ [][NextPlan]_vars

\* the callbacks of a loaded meeting and of a one-shot meeting added beside
\* it, the transport up or down at each run; the horizon bounds the runs
NextSend ==
    \/ Add(NameAR, OneShot)
    \/ \E j \in jobs : Within(j, HorizonEnd) /\ Fire(j)
    \/ \E j \in jobs : Within(j, HorizonEnd) /\ FireSendFails(j)

SpecSend == InitSend /\ [][NextSend]_vars

---------------------------------------------------------------------------
(* Removal *)

\* C1: once remove(name) has run on a meeting the registry holds, no job
\* whose id starts with that name is armed any more.
C1_RemoveCancelsJobs ==
    (last.op = "remove" /\ last.result # "does not exist")
        => \A j \in jobs : ~StartsWith(j.id, last.arg)

\* C2: once remove(name) has run on a meeting the registry holds, the name is
\* in neither the registry nor the persisted snapshot.
C2_RemoveDeletes ==
    (last.op = "remove" /\ last.result # "does not exist")
        => /\ last.arg \notin DOMAIN registry
           /\ storage # None
           /\ last.arg \notin DOMAIN storage[1]

---------------------------------------------------------------------------
(* The roster and its weights *)

\* C3: every meeting has one weight per required participant, in the
\* participants' order.
C3_WeightPerParticipant ==
    \A n \in DOMAIN registry :
        Len(heap[registry[n]].weight) = Len(heap[registry[n]].participants)

\* C4: the weights of every meeting add up to 1.
C4_WeightsSumToOne ==
    \A n \in DOMAIN registry : RSum(heap[registry[n]].weight) = One

\* C5: nobody is both a required and an optional participant of a meeting.
C5_RostersDisjoint ==
    \A o \in DOMAIN heap :
        Keys(heap[o].participants) \cap Keys(heap[o].participants_optional) = {}

\* an add_participant went through on a meeting that has both kinds of
\* participant
C5_Witness ==
    /\ last.op = "add_participant"
    /\ last.result = "text"
    /\ last.arg \in DOMAIN registry
    /\ heap[registry[last.arg]].participants # <<>>
    /\ heap[registry[last.arg]].participants_optional # <<>>

---------------------------------------------------------------------------
(* Pause and resume *)

\* C6: a paused meeting has no armed job, and once resume has run on a paused
\* meeting the ids of its armed jobs are those of its trigger set.
C6_PausedHasNoJobs ==
    /\ \A n \in DOMAIN registry :
           heap[registry[n]].paused => \A j \in jobs : j.obj # registry[n]
    /\ (last.op = "resume" /\ last.result \in {"is resumed", "traceback"})
           => { j.id : j \in { x \in jobs : x.obj = registry[last.arg] } }
                  = { tr.id : tr \in Range(Trigger(heap[registry[last.arg]])) }

\* C7: pause on a paused meeting, and resume on a meeting that is not paused,
\* answer with the message saying so and change neither the registry, nor a
\* meeting, nor the jobs, nor the snapshot.
C7_GuardedNoOp ==
    [][\A n \in DOMAIN registry :
          /\ (last'.op = "pause" /\ last'.arg = n /\ heap[registry[n]].paused)
                => /\ last'.result = "is already paused"
                   /\ ~last'.commit
                   /\ UNCHANGED <<heap, registry, jobs, storage>>
          /\ (last'.op = "resume" /\ last'.arg = n /\ ~heap[registry[n]].paused)
                => /\ last'.result = "is not currently paused"
                   /\ ~last'.commit
                   /\ UNCHANGED <<heap, registry, jobs, storage>>]_vars

\* pause was refused on a paused meeting while another meeting's jobs were
\* armed
C7_Witness ==
    /\ last.op = "pause"
    /\ last.result = "is already paused"
    /\ heap[registry[last.arg]].paused
    /\ jobs # {}

\* C8: pause(a) cancels every job of meeting a, and pause(a) and remove(a)
\* leave the jobs of every other meeting b as they were.
C8_OnlyOwnJobs ==
    [][\A a \in DOMAIN registry :
          (last'.op \in {"pause", "remove"} /\ last'.arg = a)
             => /\ last'.op = "pause" => \A j \in jobs' : j.obj # registry[a]
                /\ \A b \in DOMAIN registry \ {a} :
                      { j \in jobs' : j.obj = registry[b] }
                          = { j \in jobs : j.obj = registry[b] }]_vars

---------------------------------------------------------------------------
(* The skip policy *)

\* C9: a callback that comes due in a week the interval leaves out, or on a
\* public holiday, sends nothing, changes no meeting and commits nothing.
C9_SuppressedIsSilent ==
    [][\A j \in jobs :
          (/\ last'.op \in {"_send_reminder", "_send_appointment"}
           /\ last'.arg = j.id
           /\ j.next # None
           /\ now' = Max(now, j.next[1])
           /\ now' - j.next[1] <= 1
           /\ \/ ((now' - (heap[j.obj].start \div 86400) * 86400) \div 604800) % j.week_interval # 0
              \/ (now' \div 86400) \in Holidays)
             => /\ last'.sent = None
                /\ ~last'.commit
                /\ storage' = storage
                /\ \A o \in DOMAIN heap' : heap'[o] = heap[o]]_vars

\* the appointment of a meeting with three participants was suppressed
C9_Witness ==
    /\ last.op = "_send_appointment"
    /\ last.result = "skipped"
    /\ \E j \in jobs :
         /\ j.id = last.arg
         /\ Len(heap[j.obj].participants) >= 3
         /\ Len(heap[j.obj].weight) >= 3

\* C10: a callback that comes due proceeds to send exactly when the whole
\* weeks gone by since midnight of the start date are a multiple of the week
\* interval and the day is no public holiday.
C10_ProceedsIff ==
    [][\A j \in jobs :
          (/\ last'.op \in {"_send_reminder", "_send_appointment"}
           /\ last'.arg = j.id
           /\ j.next # None
           /\ now' = Max(now, j.next[1])
           /\ now' - j.next[1] <= 1)
             => ((last'.result \in {"sent", "raised"})
                   <=> /\ ((now' - (heap[j.obj].start \div 86400) * 86400) \div 604800) % j.week_interval = 0
                       /\ (now' \div 86400) \notin Holidays)]_vars

\* a meeting held every second week sent in the week after the one it left out
C10_Witness ==
    /\ last.op = "_send_appointment"
    /\ last.result = "sent"
    /\ now \div 604800 = 2
    /\ \E n \in DOMAIN registry :
         /\ heap[registry[n]].start \div 604800 = 0
         /\ \E i \in 1..Len(heap[registry[n]].schedules) :
              heap[registry[n]].schedules[i].week_interval = 2

---------------------------------------------------------------------------
(* The rotation *)

\* C11: an appointment that is sent names three pairwise distinct required
\* participants of nonzero weight when the meeting has at least three, and
\* one required participant three times, the weights left alone, when it has
\* fewer.
C11_SelectionShape ==
    [][\A j \in jobs :
          (/\ last'.op = "_send_appointment"
           /\ last'.arg = j.id
           /\ j.next # None
           /\ now' = Max(now, j.next[1])
           /\ last'.result \in {"sent", "raised"})
             => /\ last'.sent # None
                /\ LET m == heap[j.obj]
                       users == SubSeq(last'.sent[1].content, 2, 4)
                   IN /\ \A i \in 1..3 : users[i] \in Keys(m.participants)
                      /\ IF Len(m.participants) >= 3
                         THEN /\ users[1] # users[2]
                              /\ users[1] # users[3]
                              /\ users[2] # users[3]
                              /\ \A i \in 1..3 :
                                   m.weight[IndexOf(m.participants, users[i])][1] # 0
                         ELSE /\ users[1] = users[2]
                              /\ users[2] = users[3]
                              /\ j.obj \in DOMAIN heap' => heap'[j.obj].weight = m.weight]_vars

\* C12: a selection among at least three required participants leaves the
\* old weights with the primary's divided by 10 and the first backup's by 2,
\* every other one as it was, all divided by their sum; and the primary's new
\* weight is smaller than its old one.
C12_Decay ==
    [][\A j \in jobs :
          (/\ last'.op = "_send_appointment"
           /\ last'.arg = j.id
           /\ j.next # None
           /\ now' = Max(now, j.next[1])
           /\ last'.result = "sent"
           /\ Len(heap[j.obj].participants) >= 3
           /\ j.obj \in DOMAIN heap')
             => LET m == heap[j.obj]
                    w == m.weight
                    users == SubSeq(last'.sent[1].content, 2, 4)
                    ip == IndexOf(m.participants, users[1])
                    ib == IndexOf(m.participants, users[2])
                    x == [k \in 1..Len(w) |->
                            IF k = ip THEN RDiv(w[k], <<10, 1>>)
                            ELSE IF k = ib THEN RDiv(w[k], <<2, 1>>)
                            ELSE w[k]]
                    w2 == heap'[j.obj].weight
                IN /\ Len(w2) = Len(w)
                   /\ \A k \in 1..Len(w) : w2[k] = RDiv(x[k], RSum(x))
                   /\ RLess(w2[ip], w[ip])]_vars

\* an appointment went out for four participants whose weights had differed
C12_Witness ==
    /\ last.op = "_send_appointment"
    /\ last.result = "sent"
    /\ nsel = 1
    /\ \E n \in DOMAIN registry :
         /\ Len(heap[registry[n]].weight) = 4
         /\ storage # None
         /\ n \in DOMAIN storage[1]
         /\ storage[1][n].weight = heap[registry[n]].weight
         /\ \E a, b \in 1..4 : heap[registry[n]].weight[a] # heap[registry[n]].weight[b]

---------------------------------------------------------------------------
(* Persistence *)

\* C13: a bot restarted right after a commit holds the same names as before,
\* every meeting with the fields it had, and jobs armed for the meetings that
\* are not paused and for no other.
C13_RoundTrip ==
    [][(last'.op = "init" /\ last.commit)
          => /\ DOMAIN registry' = DOMAIN registry
             /\ \A n \in DOMAIN registry' :
                  /\ heap'[registry'[n]] = heap[registry[n]]
                  /\ (\E j \in jobs' : j.obj = registry'[n])
                         <=> ~heap'[registry'[n]].paused]_vars

\* C14: every command or callback that changes the registry or a meeting of
\* it leaves the persisted snapshot equal to the registry in memory.
C14_CommitAfterChange ==
    [][(/\ last'.op # "init"
        /\ [n \in DOMAIN registry' |-> heap'[registry'[n]]]
              # [n \in DOMAIN registry |-> heap[registry[n]]])
          => /\ last'.commit
             /\ storage' = Some([n \in DOMAIN registry' |-> AsDict(heap'[registry'[n]])])]_vars

---------------------------------------------------------------------------
(* The command surface *)

\* C15: every command returns a text: a result or the description of an
\* error, never nothing.
C15_ReturnsText ==
    last.op \in {"add", "remove", "list", "info", "edit", "add_participant",
                 "remove_participant", "pause", "resume"}
        => last.result \in {"text", "already exists", "does not exist", "traceback",
                            "is paused", "is already paused", "is resumed",
                            "is not currently paused"}

\* C16: add with a name the registry holds returns the warning and changes
\* neither a meeting, nor the jobs, nor the snapshot.
C16_AddExistingWarns ==
    [][\A n \in DOMAIN registry :
          (last'.op = "add" /\ last'.arg = n)
             => /\ last'.result = "already exists"
                /\ ~last'.commit
                /\ UNCHANGED <<heap, registry, jobs, storage>>]_vars

\* C17: remove, info, add_participant, remove_participant, pause and resume
\* on a name the registry does not hold answer that the meeting does not
\* exist and change neither the registry, nor a meeting, nor the jobs, nor
\* the snapshot.
C17_NotFound ==
    [][(/\ last'.op \in {"remove", "info", "add_participant", "remove_participant",
                         "pause", "resume"}
        /\ last'.arg \notin DOMAIN registry)
          => /\ last'.result = "does not exist"
             /\ ~last'.commit
             /\ UNCHANGED <<heap, registry, jobs, storage>>]_vars

\* pause was answered so while a job of a removed meeting was still armed
C17_Witness ==
    /\ last.op = "pause"
    /\ last.result = "does not exist"
    /\ last.arg \notin DOMAIN registry
    /\ jobs # {}
    /\ storage # None

---------------------------------------------------------------------------
(* The end of a meeting *)

\* C18: no reminder and no appointment of a meeting with an end is run for
\* an occurrence at or after the end.
C18_NothingAfterEnd ==
    [][\A j \in jobs :
          (/\ last'.op \in {"_send_reminder", "_send_appointment"}
           /\ last'.arg = j.id
           /\ j.next # None
           /\ now' = Max(now, j.next[1])
           /\ last'.result \in {"sent", "raised", "skipped"}
           /\ heap[j.obj].end # None)
             => j.next[1] < heap[j.obj].end[1]]_vars

---------------------------------------------------------------------------
(* add_participant on users who participate already *)

\* C19: an add_participant whose users include one who participates already,
\* as required or as optional participant, changes neither a meeting nor the
\* snapshot: the other users it names are not added either.
C19_KnownUserNoOp ==
    [][\A us \in SurfaceUsers, opt \in BOOLEAN :
          (/\ NameA \in DOMAIN registry
           /\ \E i \in 1..Len(us) :
                \/ \E k \in 1..Len(heap[registry[NameA]].participants) :
                     heap[registry[NameA]].participants[k].k = us[i]
                \/ \E k \in 1..Len(heap[registry[NameA]].participants_optional) :
                     heap[registry[NameA]].participants_optional[k].k = us[i]
           /\ AddParticipant(NameA, us, opt))
             => /\ UNCHANGED <<heap, registry, jobs, storage>>
                /\ ~last'.commit]_vars

\* add_participant was a no-op for bob and cat on a meeting bob belongs to
\* and cat does not
C19_Witness ==
    /\ last.op = "add_participant"
    /\ last.result = "None"
    /\ last.arg \in DOMAIN registry
    /\ LET m == heap[registry[last.arg]]
       IN /\ "bob" \in Keys(m.participants)
          /\ "cat" \notin Keys(m.participants) \cup Keys(m.participants_optional)
          /\ "dan" \notin Keys(m.participants) \cup Keys(m.participants_optional)

---------------------------------------------------------------------------
(* Commands and callbacks on the shared registry *)

\* C20: no callback runs while a command is inside the registry: an
\* appointment never finds a meeting whose participants and weights differ
\* in number, and no callback runs or commits between two steps of a command.
C20_MutualExclusion ==
    [][\A j \in jobs :
          (/\ last'.op \in {"_send_reminder", "_send_appointment"}
           /\ last'.arg = j.id
           /\ last' # last
           /\ last'.result \in {"sent", "raised", "skipped"})
             => /\ pc = None
                /\ Len(heap[j.obj].participants) = Len(heap[j.obj].weight)]_vars

---------------------------------------------------------------------------
(* What the two callbacks touch *)

\* C21: a run of the reminder callback leaves every meeting object and the
\* persisted snapshot as they were and commits nothing; a callback run that
\* changes a weight or commits is a run of the appointment callback past the
\* skip policy; and a callback run that commits has sent its message.
C21_ReminderTouchesNothing ==
    [][\A j \in jobs :
          (/\ last'.op \in {"_send_reminder", "_send_appointment"}
           /\ last'.arg = j.id
           /\ j.next # None
           /\ now' = Max(now, j.next[1]))
             => /\ j.func = "_send_reminder"
                     => /\ \A o \in DOMAIN heap \cap DOMAIN heap' : heap'[o] = heap[o]
                        /\ storage' = storage
                        /\ ~last'.commit
                /\ (\/ last'.commit
                    \/ \E o \in DOMAIN heap \cap DOMAIN heap' :
                         heap'[o].weight # heap[o].weight)
                     => /\ j.func = "_send_appointment"
                        /\ last'.op = "_send_appointment"
                        /\ ~Skip(heap[j.obj], j.week_interval, now')
                /\ last'.commit => last'.sent # None]_vars

\* a reminder was sent after a selection had decayed and saved the weights
C21_Witness ==
    /\ last.op = "_send_reminder"
    /\ last.result = "sent"
    /\ nsel >= 1
    /\ NameA \in DOMAIN registry
    /\ storage # None
    /\ storage[1][NameA].weight = heap[registry[NameA]].weight

---------------------------------------------------------------------------
(* The trigger planner *)

---------------------------------------------------------------------------
(* Arming jobs *)

\* C23: every armed job that stands for an appointment trigger of its
\* meeting (the first of a pair in the meeting's trigger set) is bound to the
\* appointment callback, and every job that stands for a reminder trigger
\* (the second of a pair) to the reminder callback, whatever the name.
C23_CallbackByTriggerKind ==
    \A j \in jobs :
       LET tr == Trigger(heap[j.obj])
       IN \A i \in 1..Len(tr) :
            (tr[i].id = j.id /\ tr[i].trig = j.trig)
              => j.func = IF i % 2 = 1 THEN "_send_appointment" ELSE "_send_reminder"

\* C24: add with a name the registry does not hold and valid fields
\* succeeds: the meeting is stored under its name, one job per trigger of
\* its trigger set is armed for it (2 for a one-shot meeting, 2k for k
\* schedules), and every job armed before is still armed, unchanged.
C24_AddAbsentSucceeds ==
    [][\A n \in Names, tpl \in Templates :
          (n \notin DOMAIN registry /\ Add(n, tpl))
             => /\ last'.result = "text"
                /\ n \in DOMAIN registry'
                /\ heap'[registry'[n]].name = n
                /\ Cardinality({ j \in jobs' : j.obj = registry'[n] })
                     = 2 * Max(1, Len(tpl.schedules))
                /\ jobs \subseteq jobs']_vars

---------------------------------------------------------------------------
(* Decayed weights and persistence *)

\* C25: whenever the appointment callback runs a selection on a meeting of
\* the registry, the persisted snapshot holds that meeting with the weights
\* the meeting has in memory: no earlier selection's decay is still unsaved.
C25_DecayCommittedBeforeNext ==
    [][\A j \in jobs :
          (/\ last'.op = "_send_appointment"
           /\ last'.arg = j.id
           /\ last'.result \in {"sent", "raised"}
           /\ j.func = "_send_appointment"
           /\ j.next # None
           /\ now' = Max(now, j.next[1]))
             => \A n \in DOMAIN registry :
                  registry[n] = j.obj
                    => /\ storage # None
                       /\ n \in DOMAIN storage[1]
                       /\ storage[1][n].weight = heap[j.obj].weight]_vars

===========================================================================
